---- MODULE Spec2Model ----
(***************************************************************************)
(* Model of project-1/src/scorer.py: the credibility scorer score_url and  *)
(* the batch ranker rank_listings.                                         *)
(*                                                                         *)
(* Number representation.  Python floats are modelled by integers:         *)
(*   signal value      in units of 1e-4   (0.75  is 7500)                  *)
(*   signal weight     in units of 1e-2   (0.10  is 10)                    *)
(*   contribution/raw  in units of 1e-6   (value * weight)                 *)
(*   score.absolute and score.percentile in hundredths (41.49 is 4149)     *)
(* A hostname is the sequence of its dot-separated lower-case labels       *)
(* ("www.ebay.com" is <<"www","ebay","com">>), the empty hostname is <<>>. *)
(* A page is the record of what the extractors' regular expressions read   *)
(* from its markup.                                                        *)
(***************************************************************************)
EXTENDS Integers, Sequences, FiniteSets, TLC

\* ----------------------------------------------------------------------
\* Bounds of the model
\* ----------------------------------------------------------------------
MaxBatch == 3
MaxNow == 2

\* ----------------------------------------------------------------------
\* State
\* ----------------------------------------------------------------------
VARIABLES
    requests_ok,    \* the import of requests succeeded (requests is not None)
    now,            \* the clock, in ticks
    pc,             \* position of the running score_url call
    url, dry_run, cohort_scores,            \* its arguments
    t0, signals, errors, status, html, fetched_ms,   \* its locals
    resp,           \* what sess.get did in the running call (the local r)
    fetches,        \* sess.get calls made by the running call
    path,           \* positions the running call went through
    ret,            \* the dict the call returns
    rl_active, rl_urls, rl_dry, tmp, abs_scores, rows   \* rank_listings

args == <<url, dry_run, cohort_scores>>
locals == <<t0, signals, errors, status, html, fetched_ms, resp>>
rank == <<rl_active, rl_urls, rl_dry, tmp, abs_scores, rows>>
vars == <<requests_ok, now, pc, args, locals, fetches, path, ret, rank>>

\* Python's None for the numeric fields score.percentile and meta.fetch_ms.
None == -1

Min(a, b) == IF a <= b THEN a ELSE b
Max(a, b) == IF a >= b THEN a ELSE b
Abs(a) == IF a >= 0 THEN a ELSE 0 - a

\* ----------------------------------------------------------------------
\* Host detectors (compiled patterns, searched against the hostname)
\* ----------------------------------------------------------------------
Last(h, k) == h[Len(h) - k]
EndsWith(h, suffix) ==
    /\ Len(h) >= Len(suffix)
    /\ SubSeq(h, Len(h) - Len(suffix) + 1, Len(h)) = suffix
\* [a-z]{2} on one label; labels of the model are alphabetic
Alpha2(label) == Len(label) = 2

EbayLike(h) ==
    \/ EndsWith(h, <<"ebay", "com">>)
    \/ Len(h) >= 3 /\ Last(h, 2) = "ebay" /\ Last(h, 1) = "co" /\ Alpha2(Last(h, 0))
    \/ Len(h) >= 2 /\ Last(h, 1) = "ebay" /\ Alpha2(Last(h, 0))
COMCLike(h) == EndsWith(h, <<"comc", "com">>)
PWCClike(h) == EndsWith(h, <<"pwccmarketplace", "com">>)
GoldinLike(h) == EndsWith(h, <<"goldin", "co">>) \/ EndsWith(h, <<"goldin", "com">>)
ToppsLike(h) == EndsWith(h, <<"topps", "com">>)
PaniniLike(h) == EndsWith(h, <<"paniniamerica", "net">>)
PSALike(h) == EndsWith(h, <<"psacard", "com">>)
SGCLike(h) == EndsWith(h, <<"gosgc", "com">>)
BGSLike(h) == EndsWith(h, <<"beckett", "com">>)

\* ----------------------------------------------------------------------
\* URLs: what urlparse makes of the input string
\*   scheme   parsed.scheme (lower-cased by urlparse)
\*   host     parsed.hostname as labels, <<>> when hostname is None
\*   port     the ":port" part of the netloc ("" when there is none)
\*   raises   urlparse itself raises ValueError (e.g. "http://[bad")
\* ----------------------------------------------------------------------
Url(s, h, p, x) == [scheme |-> s, host |-> h, port |-> p, raises |-> x]

U_ebay    == Url("https", <<"www", "ebay", "com">>, "", FALSE)
U_ebayuk  == Url("http", <<"ebay", "co", "uk">>, "", FALSE)
U_ebayde  == Url("https", <<"ebay", "de">>, "", FALSE)
U_notebay == Url("https", <<"notebay", "com">>, "", FALSE)
U_comc    == Url("https", <<"www", "comc", "com">>, "", FALSE)
U_goldin  == Url("https", <<"goldin", "co">>, "", FALSE)
U_topps   == Url("http", <<"www", "topps", "com">>, "", FALSE)
U_psa     == Url("https", <<"psacard", "com">>, "", FALSE)
U_example == Url("http", <<"example", "com">>, "", FALSE)
U_org     == Url("https", <<"example", "org">>, "", FALSE)
U_port    == Url("http", <<>>, "80", FALSE)       \* "http://:80/x"
U_plain   == Url("", <<>>, "", FALSE)             \* "not-a-url"
U_ftp     == Url("ftp", <<"www", "ebay", "com">>, "", FALSE)
U_nohost  == Url("http", <<>>, "", FALSE)         \* "http:///path"
U_bad     == Url("http", <<>>, "", TRUE)          \* "http://[bad"

Urls == { U_ebay, U_ebayuk, U_ebayde, U_notebay, U_comc, U_goldin, U_topps,
          U_psa, U_example, U_org, U_port, U_plain, U_ftp, U_nohost, U_bad }
BatchUrls == { U_ebayuk, U_comc, U_example, U_plain }

\* parsed.netloc is non-empty
HasNetloc(u) == u.host # <<>> \/ u.port # ""

\* the condition of line 263, negated, and urlparse not raising
UrlAccepted(u) ==
    /\ ~u.raises
    /\ u.scheme \in {"http", "https"}
    /\ HasNetloc(u)

\* ----------------------------------------------------------------------
\* Data containers
\* ----------------------------------------------------------------------
Signal(n, v, w, why) == [name |-> n, value |-> v, weight |-> w, rationale |-> why]
contribution(s) == s.value * s.weight

\* ----------------------------------------------------------------------
\* Pages
\* ----------------------------------------------------------------------
CARD_TERMS ==
    [k \in { "rookie", "rc", "psa 10", "bgs 9.5", "sgc 10", "gem mint", "auto",
             "autograph", "/", "refractor", "sapphire", "logofractor",
             "color match", "prizm", "topps", "merlin", "select", "optic",
             "chrome" } |->
       CASE k = "rookie" -> 1200 [] k = "rc" -> 800
         [] k = "psa 10" -> 1600 [] k = "bgs 9.5" -> 1000
         [] k = "sgc 10" -> 800 [] k = "gem mint" -> 1200
         [] k = "auto" -> 1200 [] k = "autograph" -> 1200 [] k = "/" -> 1000
         [] k = "refractor" -> 800 [] k = "sapphire" -> 800
         [] k = "logofractor" -> 800 [] k = "color match" -> 1000
         [] k = "prizm" -> 800
         [] OTHER -> 600]
SetNames == {"prizm", "topps", "merlin", "select", "optic", "chrome"}

\* html: the markup string is empty (falsy);  words: len(text.split());
\* cites: matches of the link pattern;  author: "by <Name>" found;
\* pos, neg: lexicon hits;  fb_pct10: the feedback percentage in tenths, or
\* None;  fb_cnt: the feedback count, or None;  terms: the CARD_TERMS keys
\* that occur in the lower-cased text;  content_raises, platform_raises: the
\* extractor raises on this markup.
Page(e, w, c, a, p, n, f10, fc, top, r36, rno, t, bare, yr, mega, im, ship, xc, xp) ==
    [empty |-> e, words |-> w, cites |-> c, author |-> a, pos |-> p, neg |-> n,
     fb_pct10 |-> f10, fb_cnt |-> fc, top_rated |-> top, ret_30_60 |-> r36,
     ret_none |-> rno, terms |-> t, bare_num |-> bare, any_year |-> yr,
     megacracks |-> mega, imgs |-> im, ships_from |-> ship,
     content_raises |-> xc, platform_raises |-> xp]

SynEbay ==
    Page(FALSE, 25, 0, FALSE, 0, 0, 997, 12450, TRUE, TRUE, FALSE,
         {"rookie", "psa 10", "auto", "/", "refractor", "topps", "chrome"},
         TRUE, TRUE, FALSE, 6, TRUE, FALSE, FALSE)
SynComc ==
    Page(FALSE, 15, 0, FALSE, 0, 0, None, None, FALSE, FALSE, FALSE,
         {"rc", "prizm"}, FALSE, TRUE, FALSE, 4, FALSE, FALSE, FALSE)
SynGeneric ==
    Page(FALSE, 15, 1, FALSE, 0, 0, None, None, FALSE, FALSE, FALSE,
         {"/"}, TRUE, TRUE, FALSE, 0, FALSE, FALSE, FALSE)

synthetic_page_by_clock(host) ==
    IF now % 2 = 0 THEN SynGeneric
    ELSE IF EbayLike(host) THEN SynEbay
    ELSE IF COMCLike(host) THEN SynComc
    ELSE SynGeneric
\* _synthetic_page_for
synthetic_page_for(host) ==
    IF EbayLike(host) THEN SynEbay
    ELSE IF COMCLike(host) THEN SynComc
    ELSE SynGeneric

\* Pages the network may serve
PgEmpty ==
    Page(TRUE, 0, 0, FALSE, 0, 0, None, None, FALSE, FALSE, FALSE,
         {}, FALSE, FALSE, FALSE, 0, FALSE, FALSE, FALSE)
PgArticle ==
    Page(FALSE, 640, 7, TRUE, 1, 0, None, None, FALSE, FALSE, FALSE,
         {"/", "rc", "select"}, TRUE, TRUE, FALSE, 2, FALSE, FALSE, FALSE)
PgListing ==
    Page(FALSE, 90, 1, FALSE, 0, 1, 985, 100, FALSE, FALSE, FALSE,
         {"rookie", "rc", "prizm", "/"}, TRUE, TRUE, FALSE, 3, FALSE, FALSE, FALSE)
PgListing30 == [PgListing EXCEPT !.ret_30_60 = TRUE]
PgListingNo == [PgListing EXCEPT !.ret_none = TRUE]
PgStuffed ==
    Page(FALSE, 3000, 2, TRUE, 1, 1, 1000, 0, TRUE, TRUE, TRUE,
         DOMAIN CARD_TERMS, TRUE, FALSE, TRUE, 9, TRUE, FALSE, FALSE)
PgBadContent == [PgListing30 EXCEPT !.content_raises = TRUE]
PgBadPlatform == [PgListing30 EXCEPT !.platform_raises = TRUE]
PgBadBoth == [PgListing30 EXCEPT !.content_raises = TRUE, !.platform_raises = TRUE]

\* ----------------------------------------------------------------------
\* Signals
\* ----------------------------------------------------------------------
signal_domain_baseline(h) ==
    IF EbayLike(h) THEN Signal("domain_prior", 7500, 10, "Marketplace prior (eBay)")
    ELSE IF COMCLike(h) THEN Signal("domain_prior", 7200, 10, "Marketplace prior (COMC)")
    ELSE IF PWCClike(h) \/ GoldinLike(h)
      THEN Signal("domain_prior", 7800, 10, "Auction platform prior (PWCC/Goldin)")
    ELSE IF ToppsLike(h) \/ PaniniLike(h)
      THEN Signal("domain_prior", 7600, 8, "Manufacturer prior (Topps/Panini)")
    ELSE IF PSALike(h) \/ SGCLike(h) \/ BGSLike(h)
      THEN Signal("domain_prior", 8000, 8, "Grading company prior (PSA/SGC/BGS)")
    ELSE IF Len(h) >= 2 /\ Last(h, 0) = "com"
      THEN Signal("domain_prior", 6000, 6, ".com baseline")
    ELSE Signal("domain_prior", 5000, 5, "Unknown/low-signal domain")

signal_transport_security(scheme) ==
    Signal("https", IF scheme = "https" THEN 10000 ELSE 4000, 4,
           "HTTPS vs HTTP transport")

signals_content_quality(doc) ==
    LET n == doc.words
        len == IF n <= 30 THEN Signal("content_length", 2500, 7, "Very short body")
               ELSE IF n <= 120 THEN Signal("content_length", 6000, 7, "Short body")
               ELSE IF n <= 2500
                 THEN Signal("content_length", 8200, 7, "Reasonable body length")
               ELSE Signal("content_length", 6500, 7, "Very long body")
    IN  << len,
           Signal("citations_links", Min(doc.cites * 2000, 10000), 4,
                  "Outbound refs/links density"),
           Signal("author_block_hint", IF doc.author THEN 10000 ELSE 5500, 3,
                  "Author/date hints") >>

\* f"{polarity:.2f}" for polarity given in hundredths
Fmt2(p100) ==
    LET a == Abs(p100)
    IN  (IF p100 < 0 THEN "-" ELSE "") \o ToString(a \div 100) \o "."
        \o ToString((a % 100) \div 10) \o ToString(a % 10)

sentiment_signal(doc) ==
    LET total == Max(doc.pos + doc.neg, 1)
        polarity100 == ((doc.pos - doc.neg) * 100) \div total
        val == ((doc.pos - doc.neg + total) * 10000) \div (2 * total)
    IN  << Signal("sentiment", val, 5, "lexicon polarity " \o Fmt2(polarity100)) >>

RECURSIVE Log10(_)
\* math.log10, exact on the powers of ten; every cnt >= 1000 gives at least
\* 3, where the caller's min() caps the value, so the result below is the
\* code's for powers of ten and for all cnt >= 1000
Log10(n) == IF n < 10 THEN 0 ELSE 1 + Log10(n \div 10)

RECURSIVE SumTerms(_)
SumTerms(ks) ==
    IF ks = {} THEN 0
    ELSE LET k == CHOOSE x \in ks : TRUE
         IN  CARD_TERMS[k] + SumTerms(ks \ {k})

\* f"{pct}" of the float parsed from "ddd.d"
FmtPct(p10) == ToString(p10 \div 10) \o "." \o ToString(p10 % 10)

term_score_uncapped(doc) ==
    SumTerms(doc.terms) + (IF doc.bare_num THEN 400 ELSE 0)
term_score(doc) ==
    Min(SumTerms(doc.terms) + (IF doc.bare_num THEN 400 ELSE 0), 10000)

signals_ebay_listing(doc) ==
    LET fb == IF doc.fb_pct10 # None
                THEN << Signal("seller_feedback_pct",
                               Min(2000 + 8 * doc.fb_pct10, 10000), 12,
                               "Seller feedback " \o FmtPct(doc.fb_pct10) \o "%") >>
                ELSE << Signal("seller_feedback_pct", 5500, 6, "Feedback % not found") >>
        cnt == IF doc.fb_cnt # None
                 THEN << Signal("seller_feedback_count",
                                Min(2000 * Log10(Max(doc.fb_cnt, 1)) + 4000, 10000), 8,
                                "Feedback count " \o ToString(doc.fb_cnt)) >>
                 ELSE << >>
        top == IF doc.top_rated
                 THEN << Signal("top_rated", 10000, 6, "Top Rated Seller badge") >>
                 ELSE << >>
        rpol == IF doc.ret_30_60
                 THEN << Signal("returns_policy", 9200, 5, "30/60-day returns") >>
               ELSE IF doc.ret_none
                 THEN << Signal("returns_policy", 5000, 5, "No returns") >>
               ELSE << >>
        any_set == doc.terms \cap SetNames # {} \/ doc.megacracks
        img == IF doc.imgs >= 8 THEN 9500 ELSE IF doc.imgs >= 4 THEN 7500 ELSE 5500
        ship == IF doc.ships_from
                  THEN << Signal("shipping_from", 7000, 3, "Ships-from present") >>
                  ELSE << >>
    IN  sentiment_signal(doc) \o fb \o cnt \o top \o rpol
        \o << Signal("card_specificity_terms", term_score(doc), 14,
                     "Hobby keywords present"),
              Signal("year_set_hint",
                     IF doc.any_year /\ any_set THEN 10000 ELSE 6000, 6,
                     "Year+Set mentioned"),
              Signal("image_count", img, 5, ToString(doc.imgs) \o " images") >>
        \o ship

\* ----------------------------------------------------------------------
\* Small utilities
\* ----------------------------------------------------------------------
\* Fixed-point arithmetic for the logistic curve, scale 1e8, split in
\* halves of 1e4 so that no intermediate product leaves 32 bits.
FP == 100000000
HalfFP == 10000
MulFP(a, b) ==
    LET a1 == a \div HalfFP
        a0 == a % HalfFP
        b1 == b \div HalfFP
        b0 == b % HalfFP
    IN  a1 * b1 + ((a1 * b0 + a0 * b1) \div HalfFP) + ((a0 * b0) \div FP)

RECURSIVE ExpSeries(_, _, _, _)
\* sum of the Taylor series of exp(-w) from term k on, 0 <= w <= 1
ExpSeries(w, k, term, acc) ==
    IF term = 0 THEN acc
    ELSE LET nxt == MulFP(term, w) \div k
         IN  ExpSeries(w, k + 1, nxt, IF k % 2 = 1 THEN acc - nxt ELSE acc + nxt)
ExpNeg(w) == ExpSeries(w, 1, FP, FP)

RECURSIVE DivDigits(_, _, _, _)
\* decimal long division: the first n fractional digits of r / den, then
\* rounded on the remainder
DivDigits(r, den, n, q) ==
    IF n = 0 THEN (IF 2 * r >= den THEN q + 1 ELSE q)
    ELSE DivDigits((r * 10) % den, den, n - 1, q * 10 + ((r * 10) \div den))

\* round(100 / (1 + exp(-3.5 * (raw - 0.8))), 2) in hundredths, raw in 1e-6.
\* The fixed-point result equals the float result on every raw sum the model
\* reaches; over all raw in 0..2 it differs by one hundredth on about 0.02%
\* of the values, next to a rounding boundary.
\* exp(-3.5|x|) is the 8th power of exp(-3.5|x|/8); for x < 0 the quotient
\* 1/(1+exp(3.5|x|)) is taken as e/(1+e) with e = exp(-3.5|x|).
squash_0_100(raw) ==
    LET x == raw - 800000
        w == (Abs(x) * 175) \div 4
        e1 == ExpNeg(w)
        e2 == MulFP(e1, e1)
        e4 == MulFP(e2, e2)
        e8 == MulFP(e4, e4)
        num == IF x >= 0 THEN FP ELSE e8
        den == FP + e8
    IN  DivDigits(num % den, den, 4, num \div den)

\* Python's round() to the nearest integer, ties to even, of n / d
RoundDiv(n, d) ==
    LET q == n \div d
        r == n % d
    IN  IF 2 * r > d \/ (2 * r = d /\ q % 2 = 1) THEN q + 1 ELSE q

CountLeq(x, arr) == Cardinality({i \in 1..Len(arr) : arr[i] <= x})
percentile_strict(x, arr) ==
    RoundDiv(10000 * Cardinality({i \in 1..Len(arr) : arr[i] < x}), Len(arr))
\* _percentile; the caller never passes an empty arr
percentile(x, arr) == RoundDiv(10000 * CountLeq(x, arr), Len(arr))

RECURSIVE SumContrib(_)
SumContrib(sigs) ==
    IF sigs = <<>> THEN 0 ELSE contribution(Head(sigs)) + SumContrib(Tail(sigs))

RECURSIVE InsertDescUnstable(_, _)
InsertDescUnstable(sorted, r) ==
    IF sorted = <<>> THEN <<r>>
    ELSE IF Head(sorted).score.absolute > r.score.absolute
      THEN <<Head(sorted)>> \o InsertDescUnstable(Tail(sorted), r)
    ELSE <<r>> \o sorted
\* list.sort(key=absolute, reverse=True): stable, descending
RECURSIVE InsertDesc(_, _)
InsertDesc(sorted, r) ==
    IF sorted = <<>> THEN <<r>>
    ELSE IF Head(sorted).score.absolute >= r.score.absolute
      THEN <<Head(sorted)>> \o InsertDesc(Tail(sorted), r)
    ELSE <<r>> \o sorted
RECURSIVE InsertAsc(_, _)
InsertAsc(sorted, r) ==
    IF sorted = <<>> THEN <<r>>
    ELSE IF Head(sorted).score.absolute <= r.score.absolute
      THEN <<Head(sorted)>> \o InsertAsc(Tail(sorted), r)
    ELSE <<r>> \o sorted
RECURSIVE SortAsc(_)
SortAsc(rs) ==
    IF rs = <<>> THEN <<>>
    ELSE InsertAsc(SortAsc(SubSeq(rs, 1, Len(rs) - 1)), rs[Len(rs)])
RECURSIVE SortDesc(_)
SortDesc(rs) ==
    IF rs = <<>> THEN <<>>
    ELSE InsertDesc(SortDesc(SubSeq(rs, 1, Len(rs) - 1)), rs[Len(rs)])

\* ----------------------------------------------------------------------
\* The network: what sess.get may do for a URL
\*   raised    sess.get raised (timeout, connection error, invalid URL)
\*   code      r.status_code
\*   page      r.text
\* ----------------------------------------------------------------------
Resp(c, p) == [raised |-> FALSE, code |-> c, page |-> p, msg |-> "HTTP " \o ToString(c)]
Exc(m) == [raised |-> TRUE, code |-> 0, page |-> PgEmpty, msg |-> m]
\* no sess.get was made
NoResp == [raised |-> FALSE, code |-> 0, page |-> PgEmpty, msg |-> ""]

Served(u) ==
    IF u = U_ebay
      THEN { Resp(200, p) : p \in { PgListing, PgListing30, PgListingNo, PgStuffed,
                                    PgBadContent, PgBadPlatform, PgBadBoth } }
           \cup { Resp(404, PgArticle), Exc("timed out") }
    ELSE IF u = U_ebayuk
      THEN { Resp(200, PgListing30), Resp(200, PgListingNo), Resp(200, PgListing) }
    ELSE IF u = U_example
      THEN { Resp(200, PgArticle), Resp(103, PgEmpty), Resp(404, PgEmpty),
             Exc("connection refused") }
    ELSE IF u = U_org
      THEN { Resp(200, PgArticle), Resp(200, PgEmpty), Resp(302, PgArticle),
             Exc("timed out") }
    ELSE IF u = U_comc
      THEN { Resp(200, PgListing30), Resp(403, PgEmpty) }
    ELSE IF u = U_port
      THEN { Exc("Invalid URL: No host supplied") }
    ELSE { Resp(200, PgListing30), Resp(200, PgBadContent), Resp(403, PgEmpty) }

Cohorts == { <<>>, <<779, 4149>> }

NoResult == [status |-> "none"]
Terminal == {"InvalidURL", "Aggregated"}

Init ==
    /\ requests_ok \in BOOLEAN
    /\ now = 0
    /\ pc = "Idle"
    /\ url = U_plain /\ dry_run = FALSE /\ cohort_scores = <<>>
    /\ t0 = 0 /\ signals = <<>> /\ errors = <<>> /\ status = "unset"
    /\ html = <<>> /\ fetched_ms = None /\ resp = NoResp
    /\ fetches = 0
    /\ path = <<>>
    /\ ret = NoResult
    /\ rl_active = FALSE /\ rl_urls = <<>> /\ rl_dry = FALSE
    /\ tmp = <<>> /\ abs_scores = <<>> /\ rows = <<>>

\* ----------------------------------------------------------------------
\* score_url
\* ----------------------------------------------------------------------
\* entry: t0, errors, signals (lines 256-258)
Enter(u, d, c) ==
    /\ pc' = "Start"
    /\ url' = u /\ dry_run' = d /\ cohort_scores' = c
    /\ now' = now + 1
    /\ t0' = now + 1
    /\ signals' = <<>> /\ errors' = <<>> /\ status' = "unset"
    /\ html' = <<>> /\ fetched_ms' = None /\ resp' = NoResp
    /\ fetches' = 0
    /\ path' = <<"Start">>
    /\ ret' = NoResult

\* a direct call of score_url; the caller lets go of an earlier ranking
CallScoreUrl(u, d, c) ==
    /\ pc = "Idle" /\ ~rl_active
    /\ now < MaxNow
    /\ Enter(u, d, c)
    /\ rl_urls' = <<>> /\ rl_dry' = FALSE
    /\ tmp' = <<>> /\ abs_scores' = <<>> /\ rows' = <<>>
    /\ UNCHANGED <<requests_ok, rl_active>>

InvalidMessage(u) ==
    IF u.raises THEN "invalid_url: Invalid IPv6 URL"
    ELSE "invalid_url: URL must include http(s) scheme and host"

\* 1) validate URL, 2) priors, and the initialisation of step 3
Validate ==
    /\ pc = "Start"
    /\ IF UrlAccepted(url)
         THEN /\ signals' = << signal_domain_baseline(url.host),
                               signal_transport_security(url.scheme) >>
              /\ status' = "ok"
              /\ pc' = "Validated"
              /\ path' = Append(path, "Validated")
              /\ ret' = ret
         ELSE /\ ret' = [ url |-> url, status |-> "invalid_url",
                          score |-> [absolute |-> 0, percentile |-> None],
                          signals |-> <<>>,
                          errors |-> << InvalidMessage(url) >>,
                          meta |-> [fetched_at |-> now, elapsed_ms |-> now - t0] ]
              /\ pc' = "InvalidURL"
              /\ path' = Append(path, "InvalidURL")
              /\ UNCHANGED <<signals, status>>
    /\ UNCHANGED <<requests_ok, now, args, t0, errors, html, fetched_ms, resp,
                   fetches, rank>>

SynthesizeUntimed ==
    /\ pc = "Validated" /\ dry_run
    /\ html' = << synthetic_page_for(url.host) >>
    /\ pc' = "Synthesized"
    /\ path' = Append(path, "Synthesized")
    /\ UNCHANGED <<requests_ok, now, args, t0, signals, errors, status, resp,
                   fetches, fetched_ms, ret, rank>>
\* 3) dry run: synthesize
Synthesize ==
    /\ pc = "Validated" /\ dry_run
    /\ html' = << synthetic_page_for(url.host) >>
    /\ fetched_ms' = now - t0
    /\ pc' = "Synthesized"
    /\ path' = Append(path, "Synthesized")
    /\ UNCHANGED <<requests_ok, now, args, t0, signals, errors, status, resp,
                   fetches, ret, rank>>

\* 3) requests is None
FetchUnavailable ==
    /\ pc = "Validated" /\ ~dry_run /\ ~requests_ok
    /\ errors' = Append(errors, "requests_not_available")
    /\ status' = "fetch_error"
    /\ pc' = "FetchFailed"
    /\ path' = Append(path, "FetchFailed")
    /\ UNCHANGED <<requests_ok, now, args, t0, signals, html, fetched_ms, resp,
                   fetches, ret, rank>>

HttpFailureServerOnly(code) == code >= 500
\* r.status_code >= 400 raises
HttpFailure(code) == code >= 400

FetchWithRetry ==
    /\ pc = "Validated" /\ ~dry_run /\ requests_ok
    /\ \E o \in Served(url) :
         /\ now' = now + 1
         /\ fetches' = fetches + 1
         /\ resp' = o
         /\ fetched_ms' = IF o.raised THEN fetched_ms ELSE now + 1 - t0
         /\ IF (o.raised \/ HttpFailure(o.code)) /\ fetches = 0
              THEN UNCHANGED <<errors, status, html, pc, path>>
            ELSE IF o.raised \/ HttpFailure(o.code)
              THEN /\ errors' = Append(errors, "fetch_error: " \o o.msg)
                   /\ status' = "fetch_error"
                   /\ html' = html
                   /\ pc' = "FetchFailed"
                   /\ path' = Append(path, "FetchFailed")
              ELSE /\ html' = << o.page >>
                   /\ pc' = "Fetched"
                   /\ path' = Append(path, "Fetched")
                   /\ UNCHANGED <<errors, status>>
    /\ UNCHANGED <<requests_ok, args, t0, signals, ret, rank>>

\* 3) one sess.get with its outcome
Fetch ==
    /\ pc = "Validated" /\ ~dry_run /\ requests_ok
    /\ \E o \in Served(url) :
         /\ now' = now + 1
         /\ fetches' = fetches + 1
         /\ resp' = o
         /\ fetched_ms' = IF o.raised THEN fetched_ms ELSE now + 1 - t0
         /\ IF o.raised \/ HttpFailure(o.code)
              THEN /\ errors' = Append(errors, "fetch_error: " \o o.msg)
                   /\ status' = "fetch_error"
                   /\ html' = html
                   /\ pc' = "FetchFailed"
                   /\ path' = Append(path, "FetchFailed")
              ELSE /\ html' = << o.page >>
                   /\ pc' = "Fetched"
                   /\ path' = Append(path, "Fetched")
                   /\ UNCHANGED <<errors, status>>
    /\ UNCHANGED <<requests_ok, args, t0, signals, ret, rank>>

platform_gate_marketplaces(host) == EbayLike(host) \/ COMCLike(host)
\* the guard of the platform extractors (line 313)
platform_gate(host) == EbayLike(host)

\* 4) content + platform signals
ContentStep(sigs, errs, page) ==
    IF page.content_raises
      THEN [signals |-> sigs, errors |-> Append(errs, "content_parse_error: raised")]
      ELSE [signals |-> sigs \o signals_content_quality(page), errors |-> errs]
PlatformStep(st, host, page) ==
    IF ~platform_gate(host) THEN st
    ELSE IF page.platform_raises
      THEN [st EXCEPT !.errors = Append(@, "platform_parse_error: raised")]
    ELSE [st EXCEPT !.signals = @ \o signals_ebay_listing(page)]
ExtractAbort(sigs, errs, host, page) ==
    IF page.content_raises THEN ContentStep(sigs, errs, page)
    ELSE PlatformStep(ContentStep(sigs, errs, page), host, page)
Extract(sigs, errs, host, page) ==
    PlatformStep(ContentStep(sigs, errs, page), host, page)

ComputeSignals ==
    /\ pc \in {"Synthesized", "Fetched", "FetchFailed"}
    /\ LET st == IF html # <<>> /\ ~html[1].empty
                   THEN Extract(signals, errors, url.host, html[1])
                   ELSE [signals |-> signals, errors |-> errors]
       IN  /\ signals' = st.signals
           /\ errors' = st.errors
    /\ pc' = "SignalsComputed"
    /\ path' = Append(path, "SignalsComputed")
    /\ UNCHANGED <<requests_ok, now, args, t0, status, html, fetched_ms, resp,
                   fetches, ret, rank>>

\* the meta dict of an aggregated result (lines 336-343)
Meta(host, at, elapsed, fetch) ==
    [host |-> host, is_ebay |-> EbayLike(host), fetched_at |-> at,
     elapsed_ms |-> elapsed, fetch_ms |-> fetch, version |-> "d3-0.1"]

\* 5) aggregate, and the result
Aggregate ==
    /\ pc = "SignalsComputed"
    /\ LET raw == SumContrib(signals)
           abs_score == squash_0_100(raw)
           pct == IF cohort_scores # <<>> THEN percentile(abs_score, cohort_scores)
                  ELSE None
       IN  ret' = [ url |-> url, status |-> status,
                    score |-> [absolute |-> abs_score, percentile |-> pct],
                    signals |-> signals, errors |-> errors,
                    meta |-> Meta(url.host, now, now - t0, fetched_ms) ]
    /\ pc' = "Aggregated"
    /\ path' = Append(path, "Aggregated")
    /\ UNCHANGED <<requests_ok, now, args, locals, fetches, rank>>

\* the call's frame is gone once it has returned
Leave ==
    /\ pc' = "Idle"
    /\ url' = U_plain /\ dry_run' = FALSE /\ cohort_scores' = <<>>
    /\ t0' = 0 /\ signals' = <<>> /\ errors' = <<>> /\ status' = "unset"
    /\ html' = <<>> /\ fetched_ms' = None /\ resp' = NoResp
    /\ fetches' = 0
    /\ path' = <<>>
    /\ ret' = NoResult

\* the direct caller receives the dict
Return ==
    /\ pc \in Terminal /\ ~rl_active
    /\ Leave
    /\ UNCHANGED <<requests_ok, now, rank>>

\* ----------------------------------------------------------------------
\* rank_listings
\* ----------------------------------------------------------------------
RECURSIVE SeqsUpTo(_, _)
SeqsUpTo(S, n) ==
    IF n = 0 THEN { <<>> }
    ELSE LET shorter == SeqsUpTo(S, n - 1)
         IN  shorter \cup { Append(q, x) : q \in shorter, x \in S }

RankStart(us, d) ==
    /\ pc = "Idle" /\ ~rl_active
    /\ now < MaxNow
    /\ rl_active' = TRUE /\ rl_urls' = us /\ rl_dry' = d
    /\ tmp' = <<>> /\ abs_scores' = <<>> /\ rows' = <<>>
    /\ UNCHANGED <<requests_ok, now, pc, args, locals, fetches, path, ret>>

\* r = score_url(u, dry_run=dry_run)
RankCall ==
    /\ rl_active /\ pc = "Idle"
    /\ Len(tmp) < Len(rl_urls)
    /\ Enter(rl_urls[Len(tmp) + 1], rl_dry, <<>>)
    /\ UNCHANGED <<requests_ok, rank>>

\* tmp.append(r); abs_scores.append(r["score"]["absolute"])
RankCollect ==
    /\ rl_active /\ pc \in Terminal
    /\ tmp' = Append(tmp, ret)
    /\ abs_scores' = Append(abs_scores, ret.score.absolute)
    /\ Leave
    /\ UNCHANGED <<requests_ok, now, rl_active, rl_urls, rl_dry, rows>>

WithPercentile(r, arr) ==
    [r EXCEPT !.score.percentile = percentile(r.score.absolute, arr)]

\* the second loop, the sort and the return (lines 355-359)
RankFinish ==
    /\ rl_active /\ pc = "Idle"
    /\ Len(tmp) = Len(rl_urls)
    /\ rows' = SortDesc([i \in 1..Len(tmp) |-> WithPercentile(tmp[i], abs_scores)])
    /\ rl_active' = FALSE
    /\ UNCHANGED <<requests_ok, now, pc, args, locals, fetches, path, ret,
                   rl_urls, rl_dry, tmp, abs_scores>>

Next ==
    \/ \E u \in Urls, d \in BOOLEAN, c \in Cohorts : CallScoreUrl(u, d, c)
    \/ Validate
    \/ Synthesize
    \/ FetchUnavailable
    \/ Fetch
    \/ ComputeSignals
    \/ Aggregate
    \/ Return
    \/ \E us \in SeqsUpTo(BatchUrls, MaxBatch), d \in BOOLEAN : RankStart(us, d)
    \/ RankCall
    \/ RankCollect
    \/ RankFinish

Spec == Init /\ [][Next]_vars

TypeOK == pc \in {"Idle", "Start", "InvalidURL", "Validated", "Synthesized",
                  "Fetched", "FetchFailed", "SignalsComputed", "Aggregated"}

\* ----------------------------------------------------------------------
\* Properties
\* ----------------------------------------------------------------------
\* a score_url call has returned (or is about to return) the dict ret
Returned == path # <<>> /\ path[Len(path)] \in Terminal
Aggregated == path # <<>> /\ path[Len(path)] = "Aggregated"
Names(sigs) == [i \in 1..Len(sigs) |-> sigs[i].name]
HasSignal(sigs, n) == \E i \in 1..Len(sigs) : sigs[i].name = n

InvalidResult(r) ==
    /\ r.status = "invalid_url"
    /\ r.score.absolute = 0
    /\ r.score.percentile = None
    /\ r.signals = <<>>
    /\ Len(r.errors) = 1

\* C1: every input whose parsed scheme is not http/https, or whose host is
\* empty, gets status invalid_url, absolute score 0.0, no percentile, no
\* signals and exactly one error, with no fetch and no synthesized content,
\* whatever dry_run is.
C1_EmptyHostRejected ==
    (path # <<>> /\ Len(path) > 1
       /\ (url.scheme \notin {"http", "https"} \/ url.host = <<>>))
    => /\ path = <<"Start", "InvalidURL">>
       /\ InvalidResult(ret)
       /\ fetches = 0
       /\ html = <<>>

FetchErrorResult(r, u) ==
    /\ r.status = "fetch_error"
    /\ Len(r.errors) = 1
    /\ Names(r.signals) = <<"domain_prior", "https">>
    /\ r.signals = << signal_domain_baseline(u.host),
                      signal_transport_security(u.scheme) >>
    /\ r.score.absolute = squash_0_100(SumContrib(r.signals))

\* C2 as stated: for a valid URL scored with dry_run=False, a fetch that
\* raises or returns a status that is not 2xx/3xx gives status fetch_error,
\* exactly one error entry, exactly the two priors as signals, and a score
\* aggregated from them.
C2_Non2xx3xxIsFetchError ==
    (Aggregated /\ ~dry_run /\ fetches = 1
       /\ (resp.raised \/ resp.code \notin 200..399))
    => FetchErrorResult(ret, url)

\* C2 amended: the same for a fetch that raises or returns a status code of
\* 400 or more.
C2_FetchFailureKeepsPriors ==
    (Aggregated /\ ~dry_run /\ fetches = 1
       /\ (resp.raised \/ resp.code >= 400))
    => FetchErrorResult(ret, url)

C2_Witness ==
    /\ Aggregated /\ ~dry_run /\ fetches = 1
    /\ ~resp.raised /\ resp.code = 404
    /\ ret.status = "fetch_error"
    /\ Len(ret.signals) = 2

Count(seq, P(_)) == Cardinality({i \in 1..Len(seq) : P(seq[i])})

\* C3: rank_listings returns exactly one result per input URL (same length,
\* same multiset of urls), in non-increasing order of score.absolute, also
\* when some URLs are invalid or fail to fetch.
C3_OneResultPerUrlSortedDesc ==
    ~rl_active =>
      /\ Len(rows) = Len(rl_urls)
      /\ \A u \in BatchUrls :
           LET IsU(r) == r.url = u
               EqU(x) == x = u
           IN  Count(rows, IsU) = Count(rl_urls, EqU)
      /\ \A i \in 1..Len(rows) - 1 :
           rows[i].score.absolute >= rows[i + 1].score.absolute

C3_Witness ==
    /\ ~rl_active /\ Len(rows) = 3
    /\ \E i, j, k \in 1..3 :
         /\ rows[i].status = "invalid_url"
         /\ rows[j].status = "fetch_error"
         /\ rows[k].status = "ok"
    /\ rows[1].url # rl_urls[1]
    /\ rows[1].score.absolute > rows[3].score.absolute

CohortRank(r) ==
    Cardinality({j \in 1..Len(rows) : rows[j].score.absolute <= r.score.absolute})

UnitOK(sig) ==
    /\ 0 <= sig.value /\ sig.value <= 10000
    /\ 0 <= sig.weight /\ sig.weight <= 100
    /\ 0 <= contribution(sig) /\ contribution(sig) <= sig.value * 100

\* C5: in every result of score_url every signal has 0 <= value <= 1 and
\* 0 <= weight <= 1 (so 0 <= value*weight <= value), and score.absolute is
\* in [0,100].
C5_SignalsAndScoreBounded ==
    /\ \A i \in 1..Len(signals) : UnitOK(signals[i])
    /\ Returned =>
         /\ \A i \in 1..Len(ret.signals) : UnitOK(ret.signals[i])
         /\ 0 <= ret.score.absolute /\ ret.score.absolute <= 10000

C5_Witness ==
    /\ Aggregated /\ html = << PgStuffed >>
    /\ \E i \in 1..Len(ret.signals) :
         /\ ret.signals[i].name = "card_specificity_terms"
         /\ ret.signals[i].value = 10000
    /\ \E i \in 1..Len(ret.signals) :
         /\ ret.signals[i].name = "seller_feedback_count"
         /\ ret.signals[i].value = 4000

Truthy(h) == h # <<>> /\ ~h[1].empty
ContentError == "content_parse_error: raised"
PlatformError == "platform_parse_error: raised"
EbayFamilyHosts == { <<"www", "ebay", "com">>, <<"ebay", "co", "uk">>, <<"ebay", "de">> }

\* C6: an extractor failure does not escape: a failing content extractor
\* adds a content_parse_error entry and the marketplace extractor still
\* runs; a failing marketplace extractor adds a platform_parse_error entry;
\* status is unchanged, the signals collected so far are kept, and the score
\* is aggregated from the remaining signals.
C6_ExtractorFailuresRecorded ==
    (path # <<>> /\ Len(path) >= 4 /\ Truthy(html)) =>
      LET p == html[1]
          onEbay == url.host \in EbayFamilyHosts
          pri == << signal_domain_baseline(url.host),
                    signal_transport_security(url.scheme) >>
          con == IF p.content_raises THEN <<>> ELSE signals_content_quality(p)
          mkt == IF onEbay /\ ~p.platform_raises THEN signals_ebay_listing(p)
                 ELSE <<>>
          e1 == IF p.content_raises THEN << ContentError >> ELSE <<>>
          e2 == IF onEbay /\ p.platform_raises THEN << PlatformError >> ELSE <<>>
      IN  /\ signals = pri \o con \o mkt
          /\ errors = e1 \o e2
          /\ status = "ok"
          /\ Aggregated =>
               /\ ret.status = "ok"
               /\ ret.signals = signals
               /\ ret.errors = errors
               /\ ret.score.absolute = squash_0_100(SumContrib(signals))

C6_Witness ==
    /\ Aggregated /\ html = << PgBadContent >> /\ url = U_ebay
    /\ ret.errors = << ContentError >>
    /\ ~HasSignal(ret.signals, "content_length")
    /\ HasSignal(ret.signals, "seller_feedback_pct")
    /\ ret.score.absolute > 0

MetaFields == {"host", "is_ebay", "fetched_at", "elapsed_ms", "version"}

\* C7: every result of score_url, for every status including invalid_url,
\* carries a meta record with the fields host, is_ebay, fetched_at,
\* elapsed_ms and version, so every row of rank_listings has meta.host.
C7_MetaComplete ==
    /\ Returned => MetaFields \subseteq DOMAIN ret.meta
    /\ \A i \in 1..Len(rows) : MetaFields \subseteq DOMAIN rows[i].meta

MarketplaceSignals ==
    { "sentiment", "seller_feedback_pct", "seller_feedback_count", "top_rated",
      "returns_policy", "card_specificity_terms", "year_set_hint", "image_count",
      "shipping_from" }
\* the rationale strings that contain "eBay"
MentionsEbay(why) == why \in { "Marketplace prior (eBay)" }

SameScoring(a, b) ==
    /\ a.status = b.status
    /\ a.signals = b.signals
    /\ a.score.absolute = b.score.absolute

\* C9: two dry-run scorings of the same URL give the same status, the same
\* signals in the same order and the same absolute score; fetched_at and
\* the elapsed times may differ.
C9_DryRunRepeatable ==
    rl_dry =>
      /\ \A i, j \in 1..Len(tmp) :
           tmp[i].url = tmp[j].url => SameScoring(tmp[i], tmp[j])
      /\ (rl_active /\ Returned) =>
           \A i \in 1..Len(tmp) : tmp[i].url = url => SameScoring(tmp[i], ret)

C9_Witness ==
    /\ rl_dry /\ Len(tmp) >= 2
    /\ tmp[1].url = tmp[2].url
    /\ tmp[1].status = "ok" /\ Len(tmp[1].signals) > 5
    /\ SameScoring(tmp[1], tmp[2])
    /\ tmp[1].meta.fetched_at # tmp[2].meta.fetched_at

IsPrefix(p, q) == Len(p) <= Len(q) /\ SubSeq(q, 1, Len(p)) = p
AllowedPaths ==
    { <<"Start", "InvalidURL">> } \cup
    { <<"Start", "Validated", x, "SignalsComputed", "Aggregated">> :
        x \in {"Synthesized", "Fetched", "FetchFailed"} }

\* C10: one score_url call goes Start -> InvalidURL (terminal), or Start ->
\* Validated -> one of Synthesized, Fetched, FetchFailed -> SignalsComputed
\* -> Aggregated (terminal); the two priors exist before any fetch; at most
\* one fetch is made, none for a dry run or an invalid URL, and a failed
\* fetch is not retried; status is fetch_error exactly on the FetchFailed
\* path and ok on the Synthesized and Fetched paths.
C10_CallStateMachine ==
    /\ path # <<>> => \E q \in AllowedPaths : IsPrefix(path, q)
    /\ pc # "Idle" => (path # <<>> /\ pc = path[Len(path)])
    /\ fetches <= 1
    /\ fetches = 1 => Names(SubSeq(signals, 1, 2)) = <<"domain_prior", "https">>
    /\ pc = "Validated" =>
         (fetches = 0 /\ Names(signals) = <<"domain_prior", "https">>)
    /\ (dry_run \/ (Len(path) >= 2 /\ path[2] = "InvalidURL")) => fetches = 0
    /\ Len(path) >= 3 =>
         /\ path[3] = "Synthesized" <=> dry_run
         /\ path[3] = "Fetched" => fetches = 1
         /\ status = "fetch_error" <=> path[3] = "FetchFailed"
         /\ status = "ok" <=> path[3] \in {"Synthesized", "Fetched"}
    /\ Aggregated => ret.status = status

C10_Witness ==
    /\ Aggregated /\ path[3] = "FetchFailed"
    /\ fetches = 1 /\ ret.status = "fetch_error"

IsReturns(sig) == sig.name = "returns_policy"
NotReturns(sig) == sig.name # "returns_policy"
\* what the returns_policy signal adds to the raw sum (0 without the signal)
ReturnsContribution(r) == SumContrib(SelectSeq(r.signals, IsReturns))
\* the returns text the extractor found: 3 for 30/60-day returns, 1 for
\* explicit no-returns, 2 when the page says neither
ReturnsOrder(r) ==
    IF \E i \in 1..Len(r.signals) :
         IsReturns(r.signals[i]) /\ r.signals[i].rationale = "30/60-day returns"
      THEN 3
    ELSE IF \E i \in 1..Len(r.signals) :
         IsReturns(r.signals[i]) /\ r.signals[i].rationale = "No returns"
      THEN 1
    ELSE 2
\* two results for marketplace pages that differ in their returns text only
DifferOnlyInReturns(a, b) ==
    /\ a.url = b.url
    /\ a.status = "ok" /\ b.status = "ok"
    /\ HasSignal(a.signals, "seller_feedback_pct")
    /\ HasSignal(b.signals, "seller_feedback_pct")
    /\ SelectSeq(a.signals, NotReturns) = SelectSeq(b.signals, NotReturns)

\* C11: of marketplace pages that differ only in their returns text, the one
\* stating 30/60-day returns gets a strictly higher returns-policy
\* contribution to the raw score than the one with unspecified returns,
\* which gets a strictly higher one than the one stating no returns.
C11_ReturnsThreeWayOrder ==
    \A i, j \in 1..Len(tmp) :
      (DifferOnlyInReturns(tmp[i], tmp[j])
         /\ ReturnsOrder(tmp[i]) > ReturnsOrder(tmp[j]))
      => ReturnsContribution(tmp[i]) > ReturnsContribution(tmp[j])

\* C12: in every aggregated result meta.fetch_ms is None whenever the content
\* was synthesized (a valid URL scored with dry_run=True), and is present
\* only when a real fetch was performed.
C12_FetchMsAbsentWhenSynthesized ==
    Aggregated =>
      /\ dry_run => ret.meta.fetch_ms = None
      /\ ret.meta.fetch_ms # None => fetches = 1

\* C12 (as the code has it): in every aggregated result meta.fetch_ms is an
\* elapsed time, at most meta.elapsed_ms, when the content was synthesized
\* or sess.get returned a response (one with status >= 400 included), and
\* is None only when no response was obtained.
C12_FetchMsPresentWhenContentObtained ==
    Aggregated =>
      /\ ret.meta.fetch_ms # None
           <=> (dry_run \/ (fetches = 1 /\ ~resp.raised))
      /\ ret.meta.fetch_ms # None
           => (0 <= ret.meta.fetch_ms /\ ret.meta.fetch_ms <= ret.meta.elapsed_ms)

C12_Witness ==
    /\ Aggregated /\ dry_run
    /\ path = << "Start", "Validated", "Synthesized", "SignalsComputed", "Aggregated" >>
    /\ fetches = 0
    /\ ret.meta.fetch_ms # None
    /\ ret.meta.fetch_ms = ret.meta.elapsed_ms

\* the result of one call of a finished batch, whatever percentile it got
SameCall(row, r) == row.url = r.url /\ row.meta = r.meta /\ row.score.absolute = r.score.absolute

\* C13: rank_listings breaks ties by input order: of two URLs at input
\* positions i < j whose absolute scores are equal, the result for position i
\* comes before the result for position j in the returned list.  Each call
\* stamps its result with a later meta.fetched_at than the call before it,
\* which tells the results of equal URLs apart.
C13_TiesKeepInputOrder ==
    (~rl_active /\ rows # <<>>) =>
      /\ \A i, j \in 1..Len(tmp) :
           i < j => /\ tmp[i].url = rl_urls[i]
                    /\ tmp[i].meta.fetched_at < tmp[j].meta.fetched_at
      /\ \A i, j \in 1..Len(tmp) :
           (i < j /\ tmp[i].score.absolute = tmp[j].score.absolute)
           => \E a, b \in 1..Len(rows) :
                a < b /\ SameCall(rows[a], tmp[i]) /\ SameCall(rows[b], tmp[j])

C13_Witness ==
    /\ ~rl_active /\ Len(rows) = 3
    /\ tmp[1].status = "invalid_url" /\ tmp[3].status = "invalid_url"
    /\ tmp[1].score.absolute = 0 /\ tmp[3].score.absolute = 0
    /\ tmp[2].score.absolute > 0
    /\ SameCall(rows[1], tmp[2])
    /\ SameCall(rows[2], tmp[1])
    /\ SameCall(rows[3], tmp[3])

====
